---- MODULE Spec2Model ----
(***************************************************************************)
(* Model of the four transaction-export converters of ppconverters:       *)
(*   fidelity_401k_IRA_converter.py, morgan_stanley_gsu_converter.py,      *)
(*   vanguard_401k_IRA_converter.py, vanguard_brokerage_converter.py.      *)
(* A run is one invocation of one converter on one input file.  Text is    *)
(* kept as strings, lines without their terminator; stdout and stderr are  *)
(* sequences of the lines written to them.                                 *)
(***************************************************************************)
EXTENDS Integers, Sequences, FiniteSets, TLC

(***************************************************************************)
(* Python str operations used by the converters.                           *)
(***************************************************************************)
Ch(s, i) == SubSeq(s, i, i)

DQ == "\""

IsSpace(c) == c \in {" ", "\t", "\r", "\n", "\f"}

StartsWith(s, p) == Len(s) >= Len(p) /\ SubSeq(s, 1, Len(p)) = p

Contains(s, p) ==
  \E i \in 1..(Len(s) - Len(p) + 1) : SubSeq(s, i, i + Len(p) - 1) = p

RECURSIVE LStripSpace(_)
LStripSpace(s) ==
  IF Len(s) > 0 /\ IsSpace(Ch(s, 1)) THEN LStripSpace(Tail(s)) ELSE s

RECURSIVE RStripSpace(_)
RStripSpace(s) ==
  IF Len(s) > 0 /\ IsSpace(Ch(s, Len(s)))
  THEN RStripSpace(SubSeq(s, 1, Len(s) - 1)) ELSE s

Strip(s) == RStripSpace(LStripSpace(s))

RECURSIVE LStripChar(_, _)
LStripChar(s, c) ==
  IF Len(s) > 0 /\ Ch(s, 1) = c THEN LStripChar(Tail(s), c) ELSE s

\* The character-wise operators below halve the string instead of peeling one
\* character at a time, and bind each half to a value before they recurse on
\* it, which keeps the evaluation shallow on long lines.
Left(s) == SubSeq(s, 1, Len(s) \div 2)
Right(s) == SubSeq(s, (Len(s) \div 2) + 1, Len(s))
The(S) == CHOOSE v \in S : TRUE

\* s.replace(c, '') for a single character c.
RECURSIVE RemoveChar(_, _)
RemoveChar(s, c) ==
  IF Len(s) = 0 THEN ""
  ELSE IF Len(s) = 1 THEN (IF s = c THEN "" ELSE s)
  ELSE The({RemoveChar(l, c) \o RemoveChar(r, c) : l \in {Left(s)}, r \in {Right(s)}})

UpperChars == "ABCDEFGHIJKLMNOPQRSTUVWXYZ"
LowerChars == "abcdefghijklmnopqrstuvwxyz"

LowerChar(c) ==
  IF \E i \in 1..26 : Ch(UpperChars, i) = c
  THEN Ch(LowerChars, CHOOSE i \in 1..26 : Ch(UpperChars, i) = c)
  ELSE c

RECURSIVE Lower(_)
Lower(s) ==
  IF Len(s) = 0 THEN ""
  ELSE IF Len(s) = 1 THEN LowerChar(s)
  ELSE The({Lower(l) \o Lower(r) : l \in {Left(s)}, r \in {Right(s)}})

RECURSIVE Join(_, _)
Join(row, sep) ==
  IF Len(row) = 0 THEN ""
  ELSE IF Len(row) = 1 THEN row[1]
  ELSE row[1] \o sep \o Join(Tail(row), sep)

\* s.split(sep) for a single character sep.
RECURSIVE Split(_, _)
Split(s, sep) ==
  IF \E i \in 1..Len(s) : Ch(s, i) = sep
  THEN LET k == CHOOSE i \in 1..Len(s) :
                  Ch(s, i) = sep /\ \A j \in 1..(i - 1) : Ch(s, j) # sep
       IN  <<SubSeq(s, 1, k - 1)>> \o Split(SubSeq(s, k + 1, Len(s)), sep)
  ELSE <<s>>

\* list.index(x): the first position (1-based here) holding x, 0 when absent
\* (where Python raises ValueError).
IndexOf(list, x) ==
  IF \E i \in 1..Len(list) : list[i] = x
  THEN CHOOSE i \in 1..Len(list) :
         list[i] = x /\ \A j \in 1..(i - 1) : list[j] # x
  ELSE 0

Has(list, x) == \E i \in 1..Len(list) : list[i] = x

\* list.insert(k, x) with a 0-based k, as Python clamps it to the list's length.
InsertAt(list, k, x) ==
  LET kk == IF k > Len(list) THEN Len(list) ELSE k
  IN  SubSeq(list, 1, kk) \o <<x>> \o SubSeq(list, kk + 1, Len(list))

\* Python's 0-based list[k], list[k] = x, and whether k is inside the list.
Get(list, k) == list[k + 1]
SetAt(list, k, x) == [list EXCEPT ![k + 1] = x]
InRange(list, k) == k >= 0 /\ k < Len(list)

(***************************************************************************)
(* csv.reader and csv.writer with the default (excel) dialect.             *)
(***************************************************************************)
\* The reader's state after one more character c: st is the parser state, cur
\* the field being read, acc the fields read so far.
CsvStep(p, c) ==
  LET save == [st |-> "start_field", cur |-> "", acc |-> Append(p.acc, p.cur)]
      add(st) == [st |-> st, cur |-> p.cur \o c, acc |-> p.acc]
  IN  CASE p.st \in {"start_record", "start_field"} ->
             IF c = DQ THEN [p EXCEPT !.st = "in_quoted"]
             ELSE IF c = "," THEN save
             ELSE add("in_field")
        [] p.st = "in_field" ->
             IF c = "," THEN save ELSE add("in_field")
        [] p.st = "in_quoted" ->
             IF c = DQ THEN [p EXCEPT !.st = "quote_in_quoted"]
             ELSE add("in_quoted")
        [] p.st = "quote_in_quoted" ->
             IF c = DQ THEN add("in_quoted")
             ELSE IF c = "," THEN save
             ELSE add("in_field")

RECURSIVE CsvScan(_, _)
CsvScan(s, p) ==
  IF Len(s) = 0 THEN p
  ELSE IF Len(s) = 1 THEN CsvStep(p, s)
  ELSE The({CsvScan(r, q) : r \in {Right(s)},
                            q \in {The({CsvScan(l, p) : l \in {Left(s)}})}})

\* One record of csv.reader: an empty line gives the empty row, and the end of
\* the line closes the field being read.
CsvParseLine(line) ==
  The({IF p.st = "start_record" THEN p.acc ELSE Append(p.acc, p.cur) :
         p \in {The({CsvScan(l, p0) :
                       l \in {line},
                       p0 \in {[st |-> "start_record", cur |-> "", acc |-> <<>>]}})}})

NeedsQuote(f) ==
  \E i \in 1..Len(f) : Ch(f, i) \in {",", DQ, "\r", "\n"}

RECURSIVE DoubleQuotes(_)
DoubleQuotes(f) ==
  IF Len(f) = 0 THEN ""
  ELSE IF Len(f) = 1 THEN (IF f = DQ THEN DQ \o DQ ELSE f)
  ELSE The({DoubleQuotes(l) \o DoubleQuotes(r) : l \in {Left(f)}, r \in {Right(f)}})

CsvField(f) == IF NeedsQuote(f) THEN DQ \o DoubleQuotes(f) \o DQ ELSE f

CsvFormatRow(row) ==
  IF Len(row) = 1 /\ row[1] = "" THEN DQ \o DQ
  ELSE Join([i \in 1..Len(row) |-> CsvField(row[i])], ",")

(***************************************************************************)
(* float(s) and f"{v:.2f}" on decimal numerals.  A parsed number is        *)
(* [ok, neg, num, dec]: the value (-1)^neg * num / 10^dec.                 *)
(***************************************************************************)
Digits == "0123456789"

IsDigit(c) == \E i \in 1..10 : Ch(Digits, i) = c

DigitVal(c) == (CHOOSE i \in 1..10 : Ch(Digits, i) = c) - 1

AllDigits(s) == \A i \in 1..Len(s) : IsDigit(Ch(s, i))

RECURSIVE NatVal(_)
NatVal(s) ==
  IF Len(s) = 0 THEN 0
  ELSE 10 * NatVal(SubSeq(s, 1, Len(s) - 1)) + DigitVal(Ch(s, Len(s)))

NotANumber == [ok |-> FALSE, neg |-> FALSE, num |-> 0, dec |-> 0]

ParseFloat(s) ==
  LET t    == Strip(s)
      sgn  == Len(t) > 0 /\ Ch(t, 1) \in {"-", "+"}
      neg  == Len(t) > 0 /\ Ch(t, 1) = "-"
      body == IF sgn THEN Tail(t) ELSE t
      dot  == IF \E i \in 1..Len(body) : Ch(body, i) = "."
              THEN CHOOSE i \in 1..Len(body) :
                     Ch(body, i) = "." /\ \A j \in 1..(i - 1) : Ch(body, j) # "."
              ELSE 0
      ip   == IF dot = 0 THEN body ELSE SubSeq(body, 1, dot - 1)
      fp   == IF dot = 0 THEN "" ELSE SubSeq(body, dot + 1, Len(body))
  IN  IF Len(ip) + Len(fp) > 0 /\ AllDigits(ip) /\ AllDigits(fp)
      THEN [ok |-> TRUE, neg |-> neg, num |-> NatVal(ip \o fp), dec |-> Len(fp)]
      ELSE NotANumber

IsFloat(s) == ParseFloat(s).ok

FloatIsZero(s) == ParseFloat(s).ok /\ ParseFloat(s).num = 0

FloatIsNeg(s) == ParseFloat(s).ok /\ ParseFloat(s).neg /\ ParseFloat(s).num > 0

FloatIsPos(s) == ParseFloat(s).ok /\ ~ParseFloat(s).neg /\ ParseFloat(s).num > 0

RECURSIVE Pow10(_)
Pow10(n) == IF n = 0 THEN 1 ELSE 10 * Pow10(n - 1)

RECURSIVE NatStr(_)
NatStr(n) ==
  IF n < 10 THEN Ch(Digits, n + 1)
  ELSE NatStr(n \div 10) \o Ch(Digits, (n % 10) + 1)

\* f"{a * b:.2f}" for parsed numbers a and b: the product rounded half-even to
\* hundredths, the sign kept also on a zero (Python prints -0.00).
FormatProduct2(a, b) ==
  LET n     == a.num * b.num
      d     == a.dec + b.dec
      neg   == a.neg # b.neg
      scale == IF d > 2 THEN Pow10(d - 2) ELSE 1
      q     == IF d > 2 THEN n \div scale ELSE n * Pow10(2 - d)
      rem   == IF d > 2 THEN n % scale ELSE 0
      up    == 2 * rem > scale \/ (2 * rem = scale /\ q % 2 = 1)
      h     == IF up THEN q + 1 ELSE q
      cents == h % 100
  IN  (IF neg THEN "-" ELSE "") \o NatStr(h \div 100) \o "."
        \o Ch(Digits, (cents \div 10) + 1) \o Ch(Digits, (cents % 10) + 1)

(***************************************************************************)
(* The run: one converter, one input file.                                 *)
(***************************************************************************)
VARIABLES
  conv,      \* which script runs: "fidelity", "morgan", "vanguard401k", "brokerage"
  exists,    \* whether the path names a file
  infile,    \* the file's lines, in order, without their terminators
  pc,        \* "start", "rows", "done" (returned) or "fatal" (exited on an error)
  pos,       \* index in infile of the next line the row loop reads
  last,      \* index in infile of the last line the row loop may read
  header,    \* the header list, as the converter holds (and mutates) it
  kind,      \* the detected variant
  cols,      \* the column indices resolved from the header (0-based, -1 absent)
  out,       \* standard output: the lines written, each with the row it renders
  buf,       \* vanguard401k's io.StringIO, printed when the function returns
  err,       \* standard error: the messages written
  exit       \* the exit status, -1 while running

vars == <<conv, exists, infile, pc, pos, last, header, kind, cols, out, buf, err, exit>>

\* One written line: its text, what it is ("header", "row", "msg"), the field
\* list handed to the writer and the input line it derives from (0: none).
Line(text, what, row, src) == [text |-> text, what |-> what, row |-> row, src |-> src]

NoCols == [resolved |-> FALSE]

(***************************************************************************)
(* Input files.  A file is an optional preamble, an optional header line   *)
(* and data lines; a data line renders a row (column name -> cell) in the  *)
(* header's column order, well-formed, one cell short or one cell long.    *)
(***************************************************************************)
MaxRows == 2
MaxPre == 1

Cell(rec, name) == IF name \in DOMAIN rec THEN rec[name] ELSE ""

RowCells(layout, e) ==
  LET cells == [i \in 1..Len(layout) |-> Cell(e.rec, layout[i])]
  IN  CASE e.shape = "short"  -> SubSeq(cells, 1, Len(cells) - 1)
        [] e.shape = "long"   -> Append(cells, "extra")
        [] e.shape = "footer" -> <<"Please note that this report is not a tax document">>
        [] OTHER              -> cells

RowLine(layout, e) == CsvFormatRow(RowCells(layout, e))

Ok(rec) == [rec |-> rec, shape |-> "ok"]
Short(rec) == [rec |-> rec, shape |-> "short"]
Long(rec) == [rec |-> rec, shape |-> "long"]
Footer == [rec |-> <<>>, shape |-> "footer"]

Preamble == "Transaction history for account ending 1234"

SeqsUpTo(S, n) == UNION {[1..k -> S] : k \in 0..n}

Fid401kLayout == <<"Date", "Investment", "Transaction Type", "Shares", "Amount">>
FidIRALayout ==
  <<"Run Date", "Action", "Symbol", "Description", "Type", "Quantity", "Price",
    "Commission", "Fees", "Accrued Interest", "Amount", "Cash Balance",
    "Settlement Date">>
FidBadLayout == <<"Date", "Investment", "Type">>

Fid401kRec(d, i, t, s, a) ==
  ("Date" :> d) @@ ("Investment" :> i) @@ ("Transaction Type" :> t)
    @@ ("Shares" :> s) @@ ("Amount" :> a)

FidIRARec(d, act, sym, q, a) ==
  ("Run Date" :> d) @@ ("Action" :> act) @@ ("Symbol" :> sym)
    @@ ("Quantity" :> q) @@ ("Amount" :> a) @@ ("Type" :> "Cash")

Fid401kPool ==
  { Ok(Fid401kRec("2024-01-15", "VANG TARGET RET 2070", "Contributions", "-2.5", "-500.00")),
    Ok(Fid401kRec("2024-01-16", "FUND A", "Change in Market Value", "0", "12.00")),
    Ok(Fid401kRec("2024-01-17", "FUND A", "Transfers", "0", "0.00")),
    Ok(Fid401kRec("2024-01-18", "FUND A", "Transfers", "1", "n/a")),
    Ok(Fid401kRec("2024-01-19", "FUND, B", "Exchange Out", "--3", "-25.00")),
    Ok(Fid401kRec("2024-01-20", "FUND A", "Transfers", "-4", "-40.00")),
    Short(Fid401kRec("2024-01-21", "FUND A", "Exchange In", "1", "10.00")),
    Long(Fid401kRec("2024-01-22", "FUND A", "RECORDKEEPING FEE", "-1", "-2.00")) }

FidIRAPool ==
  { Ok(FidIRARec("01/15/2024", "REINVESTMENT VANGUARD 500", "VFIAX", "1.5", "-600.00")),
    Ok(FidIRARec("01/16/2024", "DIVIDEND RECEIVED VANGUARD 500", "VFIAX", "", "6.00")),
    Ok(FidIRARec("01/17/2024", "Transfers", "VFIAX", "0", "0.00")),
    Ok(FidIRARec("01/18/2024", "YOU BOUGHT \"VTI\"", "VTI", "2", "-400.00")),
    Short(FidIRARec("01/19/2024", "REINVESTMENT", "VFIAX", "1", "-1.00")),
    Long(FidIRARec("01/20/2024", "REINVESTMENT", "VFIAX", "1", "-1.00")) }

\* Header layouts and the rows that go with each, per converter.
FidelityInputs ==
  { [layout |-> Fid401kLayout, pool |-> Fid401kPool],
    [layout |-> FidIRALayout,  pool |-> FidIRAPool],
    [layout |-> FidBadLayout,  pool |-> Fid401kPool],
    [layout |-> <<>>,          pool |-> {}] }

RelLayout == <<"Vest Date", "Order Number", "Type", "Price", "Net Share Proceeds">>
RelLayoutProceedsFirst ==
  <<"Vest Date", "Net Share Proceeds", "Order Number", "Type", "Price">>
RelLayoutNoProceeds == <<"Vest Date", "Order Number", "Type", "Price">>
WdLayout == <<"Execution Date", "Order Number", "Type", "Quantity", "Net Amount">>
WdLayoutOrderLast == <<"Execution Date", "Type", "Quantity", "Net Amount", "Order Number">>
WdLayoutNoQuantity == <<"Execution Date", "Order Number", "Type", "Net Amount">>
UnknownLayout == <<"Date", "Order Number", "Type">>

RelRec(d, o, t, p, n) ==
  ("Vest Date" :> d) @@ ("Order Number" :> o) @@ ("Type" :> t)
    @@ ("Price" :> p) @@ ("Net Share Proceeds" :> n)

WdRec(d, o, t, q, a) ==
  ("Execution Date" :> d) @@ ("Order Number" :> o) @@ ("Type" :> t)
    @@ ("Quantity" :> q) @@ ("Net Amount" :> a)

RelPool ==
  { Ok(RelRec("25-Jan-2024", "R1001", "Release", "$150.25", "10")),
    Ok(RelRec("25-Feb-2024", "R1002", "Release", "n/a", "4")),
    Ok(RelRec("25-Mar-2024", "R1003", "Release", "$2.50", "ten")),
    Ok(RelRec("25-Apr-2024", "R1004", "Adjustment", "$2.50", "-3")),
    Short(RelRec("25-May-2024", "R1005", "Release", "$1.00", "1")),
    Long(RelRec("25-Jun-2024", "R1006", "Release", "$1.00", "2")) }

WdPool ==
  { Ok(WdRec("26-Jan-2024", "W2001", "Sale", "-10", "$1,000.00")),
    Ok(WdRec("26-Feb-2024", "W2002", "Transfer", "5", "$20.00")),
    Short(WdRec("26-Mar-2024", "W2003", "Sale", "-1", "$9.00")),
    Long(WdRec("26-Apr-2024", "W2004", "Sale", "-2", "$18.00")),
    Footer }

MorganInputs ==
  { [layout |-> RelLayout,              pool |-> RelPool],
    [layout |-> RelLayoutProceedsFirst, pool |-> RelPool],
    [layout |-> RelLayoutNoProceeds,    pool |-> RelPool],
    [layout |-> WdLayout,               pool |-> WdPool],
    [layout |-> WdLayoutOrderLast,      pool |-> WdPool],
    [layout |-> WdLayoutNoQuantity,     pool |-> WdPool],
    [layout |-> UnknownLayout,          pool |-> WdPool],
    [layout |-> <<>>,                   pool |-> {}] }

V401kLayout ==
  <<"Account Number", "Trade Date", "Transaction Description", "Investment Name",
    "Share Price", "Transaction Shares", "Dollar Amount">>
V401kLayoutSharesFirst ==
  <<"Account Number", "Trade Date", "Transaction Shares", "Share Price",
    "Transaction Description", "Investment Name", "Dollar Amount">>
VRothLayout ==
  <<"Account Number", "Trade Date", "Transaction Description", "Investment Name",
    "Share Price", "Shares", "Principal Amount", "Net Amount">>
VNoAmountLayout == <<"Account Number", "Trade Date", "Transaction Description">>
VNoDescLayout ==
  <<"Account Number", "Trade Date", "Investment Name", "Share Price",
    "Transaction Shares", "Dollar Amount">>

V401kRec(d, i, p, sh, a) ==
  ("Account Number" :> "401K-1") @@ ("Trade Date" :> "01/15/2024")
    @@ ("Transaction Description" :> d) @@ ("Investment Name" :> i)
    @@ ("Share Price" :> p) @@ ("Transaction Shares" :> sh) @@ ("Dollar Amount" :> a)

VRothRec(d, i, p, sh, a, n) ==
  ("Account Number" :> "ROTH-1") @@ ("Trade Date" :> "01/15/2024")
    @@ ("Transaction Description" :> d) @@ ("Investment Name" :> i)
    @@ ("Share Price" :> p) @@ ("Shares" :> sh) @@ ("Principal Amount" :> a)
    @@ ("Net Amount" :> n)

V401kPool ==
  { Ok(V401kRec("Plan Contribution", "Target Retire 2050 Tr", "$100.00", "1.5", "$150.00")),
    Ok(V401kRec("Miscellaneous Credits", "Tgt Retire 2070 Trust", "$10.00", "2", "-20.00")),
    Ok(V401kRec("Miscellaneous Credits", "Tgt Retire 2070 Trust", "$10.00", "-3", "30.00")),
    Ok(V401kRec("Miscellaneous Credits", "Tgt Retire 2070 Trust", "$10.00", "0", "$5.00")),
    Ok(V401kRec("Miscellaneous Credits", "Tgt Retire 2070 Trust", "$10.00", "n/a", "0")),
    Ok(V401kRec("Fee", "Tgt Retire 2070 Trust", "", "-0.1", "-$5.00")),
    Ok(V401kRec("Fee", "Tgt Retire 2070 Trust", "$50.00", "", "-$5.00")),
    Ok(V401kRec("Source to Source/Fund to Fund Transfer Out", "Other Fund", "$1.00", "-1", "-$1.00")),
    Short(V401kRec("Fund to Fund In", "Other Fund", "$1.00", "1", "$1.00")),
    Long(V401kRec("Fund to Fund Out", "Other Fund", "$1.00", "-1", "-$1.00")) }

VRothPool ==
  { Ok(VRothRec("Dividend Reinvestment", "Total Stock", "$50.00", "1", "-$50.00", "-50.00")),
    Ok(VRothRec("Dividend Received", "Total Stock", "", "", "$5.00", "5.00")),
    Ok(VRothRec("Sweep in", "Settlement Fund", "$1.00", "5", "-$5.00", "-5.00")),
    Ok(VRothRec("Miscellaneous Credits", "Total Stock", "$50.00", "-1", "$50.00", "50.00")),
    Ok(VRothRec("Fee", "Total Stock", "", "0", "-$2.00", "-2.00")),
    Short(VRothRec("Rollover Conversion", "Total Stock", "$50.00", "2", "-$100.00", "-100.00")) }

VanguardInputs ==
  { [layout |-> V401kLayout,            pool |-> V401kPool],
    [layout |-> V401kLayoutSharesFirst, pool |-> V401kPool],
    [layout |-> VRothLayout,            pool |-> VRothPool],
    [layout |-> VNoAmountLayout,        pool |-> V401kPool],
    [layout |-> VNoDescLayout,          pool |-> V401kPool],
    [layout |-> <<>>,                   pool |-> {}] }

BrkLayout ==
  <<"Account Number", "Trade Date", "Settlement Date", "Transaction Type",
    "Investment Name", "Shares", "Principal Amount">>
BrkLayoutTypeLast ==
  <<"Account Number", "Trade Date", "Settlement Date", "Principal Amount",
    "Shares", "Investment Name", "Transaction Type">>
BrkLayoutNoType ==
  <<"Account Number", "Trade Date", "Settlement Date", "Investment Name",
    "Shares", "Principal Amount">>

BrkRec(t, i, sh, a) ==
  ("Account Number" :> "12345678") @@ ("Trade Date" :> "2024-01-15")
    @@ ("Settlement Date" :> "2024-01-16") @@ ("Transaction Type" :> t)
    @@ ("Investment Name" :> i) @@ ("Shares" :> sh) @@ ("Principal Amount" :> a)

BrkPool ==
  { Ok(BrkRec("Sweep in", "VANGUARD FEDERAL MONEY MARKET", "0", "-100.00")),
    Ok(BrkRec("SWEEP OUT", "VANGUARD FEDERAL MONEY MARKET", "0", "100.00")),
    Ok(BrkRec("Reinvestment (LT gain)", "VANGUARD 500", "0.1", "-5.00")),
    Ok(BrkRec("Dividend", "Smith, Jones & Co \"A\" shares", "0", "7.00")),
    Ok(BrkRec(" Buy (exchange)", "VANGUARD 500", "2", "--900.00")),
    Short(BrkRec("Sweep in", "VANGUARD FEDERAL MONEY MARKET", "0", "-1.00")),
    Long(BrkRec("Withdrawal", "", "0", "-50.00")) }

BrokerageInputs ==
  { [layout |-> BrkLayout,         pool |-> BrkPool],
    [layout |-> BrkLayoutTypeLast, pool |-> BrkPool],
    [layout |-> BrkLayoutNoType,   pool |-> BrkPool],
    [layout |-> <<>>,              pool |-> {}] }

Inputs(c) ==
  CASE c = "fidelity"     -> FidelityInputs
    [] c = "morgan"       -> MorganInputs
    [] c = "vanguard401k" -> VanguardInputs
    [] c = "brokerage"    -> BrokerageInputs

\* The lines of a file: npre preamble lines, the header (none for an empty
\* layout), the data lines, and with tail a blank line and a footer line.
FileOf(layout, npre, rows, tail) ==
  [i \in 1..npre |-> Preamble]
    \o (IF layout = <<>> THEN <<>> ELSE <<CsvFormatRow(layout)>>)
    \o [i \in 1..Len(rows) |-> RowLine(layout, rows[i])]
    \o (IF tail THEN <<"", "Please note that totals are estimates">> ELSE <<>>)

Converters == {"fidelity", "morgan", "vanguard401k", "brokerage"}

InitFor(cs) ==
  /\ conv \in cs
  /\ \/ /\ exists = FALSE
        /\ infile = <<>>
     \/ /\ exists = TRUE
        /\ \E inp \in Inputs(conv), npre \in 0..MaxPre, tail \in BOOLEAN :
             \E rows \in SeqsUpTo(inp.pool, MaxRows) :
               infile = FileOf(inp.layout, npre, rows, tail)
  /\ pc = "start"
  /\ pos = 0
  /\ last = 0
  /\ header = <<>>
  /\ kind = "none"
  /\ cols = NoCols
  /\ out = <<>>
  /\ buf = <<>>
  /\ err = <<>>
  /\ exit = -1

\* sys.exit(1) after a message on the error stream.
Abort(msg) ==
  /\ err' = Append(err, msg)
  /\ exit' = 1
  /\ pc' = "fatal"

\* The function returns and the script ends with status 0.
Return ==
  /\ exit' = 0
  /\ pc' = "done"

(***************************************************************************)
(* fidelity_401k_IRA_converter.py                                          *)
(***************************************************************************)
IsFidelityHeader(line) ==
  StartsWith(Strip(line), "Date,") \/ StartsWith(Strip(line), "Run Date,")

\* The scan of lines 14-32: the index of the first header line (0: none) and of
\* the last line kept, which is the one before the first blank line after it.
FidelityStart(f) ==
  IF \E i \in 1..Len(f) : IsFidelityHeader(f[i])
  THEN CHOOSE i \in 1..Len(f) :
         IsFidelityHeader(f[i]) /\ \A j \in 1..(i - 1) : ~IsFidelityHeader(f[j])
  ELSE 0

FidelityStop(f) ==
  LET s == FidelityStart(f)
      blanks == {i \in (s + 1)..Len(f) : Strip(f[i]) = ""}
  IN  IF blanks = {} THEN Len(f)
      ELSE (CHOOSE i \in blanks : \A j \in blanks : i <= j) - 1

StandardHeader == <<"Date", "Investment", "Transaction Type", "Shares", "Amount">>

\* What one pass of a row loop does: it writes a row, skips the line silently,
\* skips it with a warning on the error stream, or raises.
Skip == [act |-> "skip", row |-> <<>>]
Warn(msg) == [act |-> "warn", row |-> <<>>, msg |-> msg]
Raise(e) == [act |-> "raise", row |-> <<>>, exc |-> e]
Emit(row) == [act |-> "emit", row |-> row]

Map401kInvestment(investment) ==
  IF investment = "VANG TARGET RET 2070" THEN "VSVNX" ELSE investment

Map401kType(t) ==
  CASE t = "Contributions"     -> "Buy"
    [] t = "Exchange In"       -> "Buy"
    [] t = "Exchange Out"      -> "Sell"
    [] t = "RECORDKEEPING FEE" -> "Fees"
    [] OTHER                   -> t

\* The 401k loop body with the zero test of line 66 done on the text ("0")
\* instead of on the parsed number.
Fidelity401kStep_TextZero(row) ==
  IF Len(row) # 5 THEN Skip
  ELSE LET trans_type == row[3]
           amount == row[5]
           transfer == trans_type \in {"Transfers", "Transfer"} /\ amount # ""
       IN  IF trans_type = "Change in Market Value" THEN Skip
           ELSE IF transfer /\ amount = "0" THEN Skip
           ELSE Emit(<<row[1], Map401kInvestment(row[2]), Map401kType(trans_type),
                       LStripChar(row[4], "-"), LStripChar(amount, "-")>>)

\* One pass of the 401k loop body (lines 52-89) on a parsed row.
Fidelity401kStep(row) ==
  IF Len(row) # 5 THEN Skip
  ELSE LET trans_type == row[3]
           amount == row[5]
           transfer == trans_type \in {"Transfers", "Transfer"} /\ amount # ""
       IN  IF trans_type = "Change in Market Value" THEN Skip
           ELSE IF transfer /\ ~IsFloat(amount) THEN Raise("ValueError")
           ELSE IF transfer /\ FloatIsZero(amount) THEN Skip
           ELSE Emit(<<row[1], Map401kInvestment(row[2]), Map401kType(trans_type),
                       LStripChar(row[4], "-"), LStripChar(amount, "-")>>)

MapIRAType(action) ==
  IF Contains(action, "REINVESTMENT") THEN "Buy"
  ELSE IF Contains(action, "DIVIDEND RECEIVED") THEN "Dividend"
  ELSE action

\* One pass of the IRA loop body (lines 94-116) on a parsed row.
FidelityIRAStep(row) ==
  IF Len(row) # 13 THEN Skip
  ELSE Emit(<<row[1], row[3], MapIRAType(row[2]),
              LStripChar(row[6], "-"), LStripChar(row[11], "-")>>)

FidelityNotFound ==
  /\ conv = "fidelity" /\ pc = "start" /\ ~exists
  /\ Abort("Error: Input file not found")
  /\ UNCHANGED <<conv, exists, infile, pos, last, header, kind, cols, out, buf>>

FidelityNoData ==
  /\ conv = "fidelity" /\ pc = "start" /\ exists
  /\ FidelityStart(infile) = 0
  /\ Abort("Error: No data found in file.")
  /\ UNCHANGED <<conv, exists, infile, pos, last, header, kind, cols, out, buf>>

\* Lines 39-49 and 91: the header is read, the standardized header is written,
\* and only then is the header's shape looked at.
FidelityHeader ==
  /\ conv = "fidelity" /\ pc = "start" /\ exists
  /\ FidelityStart(infile) # 0
  /\ \E s \in {FidelityStart(infile)} :
     \E h \in {CsvParseLine(infile[s])} :
     \E k \in {IF h[1] = "Date" /\ Len(h) = 5 THEN "401k"
               ELSE IF h[1] = "Run Date" /\ Len(h) = 13 THEN "ira"
               ELSE "none"} :
         /\ header' = h
         /\ kind' = k
         /\ pos' = s + 1
         /\ last' = FidelityStop(infile)
         /\ out' = Append(out, Line(CsvFormatRow(StandardHeader), "header", StandardHeader, s))
         /\ IF k = "none"
            THEN Abort("Error: Unsupported CSV format. Header found")
            ELSE pc' = "rows" /\ UNCHANGED <<err, exit>>
  /\ UNCHANGED <<conv, exists, infile, cols, buf>>

FidelityRow ==
  /\ conv = "fidelity" /\ pc = "rows" /\ pos <= last
  /\ \E row \in {CsvParseLine(infile[pos])} :
     \E r \in {IF kind = "401k" THEN Fidelity401kStep(row) ELSE FidelityIRAStep(row)} :
         CASE r.act = "emit" ->
                /\ out' = Append(out, Line(CsvFormatRow(r.row), "row", r.row, pos))
                /\ pos' = pos + 1
                /\ UNCHANGED <<pc, err, exit>>
           [] r.act = "skip" ->
                /\ pos' = pos + 1
                /\ UNCHANGED <<pc, out, err, exit>>
           [] OTHER ->
                /\ Abort("An error occurred")
                /\ UNCHANGED <<pos, out>>
  /\ UNCHANGED <<conv, exists, infile, last, header, kind, cols, buf>>

FidelityFinish ==
  /\ conv = "fidelity" /\ pc = "rows" /\ pos > last
  /\ Return
  /\ UNCHANGED <<conv, exists, infile, pos, last, header, kind, cols, out, buf, err>>

process_fidelity_csv ==
  \/ FidelityNotFound
  \/ FidelityNoData
  \/ FidelityHeader
  \/ FidelityRow
  \/ FidelityFinish

(***************************************************************************)
(* morgan_stanley_gsu_converter.py                                         *)
(***************************************************************************)
\* header.index(name) as Python gives it: 0-based, -1 standing for ValueError.
Index0(h, name) == IndexOf(h, name) - 1

ReleasesCols(h) ==
  [price_index              |-> Index0(h, "Price"),
   type_index               |-> Index0(h, "Type"),
   order_number_index       |-> Index0(h, "Order Number"),
   net_share_proceeds_index |-> Index0(h, "Net Share Proceeds")]

ReleasesHeader(h) ==
  InsertAt(InsertAt(h, Index0(h, "Order Number") + 1, "Symbol"),
           Index0(h, "Net Share Proceeds") + 2, "Value")

\* One pass of the Releases loop body (lines 31-61).
ReleasesStep(row, c) ==
  IF ~InRange(row, c.price_index) THEN Raise("IndexError")
  ELSE LET price_str == RemoveChar(Get(row, c.price_index), "$")
           row1 == SetAt(row, c.price_index, price_str)
       IN  IF ~IsFloat(price_str)
           THEN Warn("Warning: Could not parse price in Releases row")
           ELSE IF ~InRange(row1, c.type_index) THEN Raise("IndexError")
           ELSE LET row2 == IF Get(row1, c.type_index) = "Release"
                            THEN SetAt(row1, c.type_index, "Buy") ELSE row1
                IN  IF ~InRange(row2, c.net_share_proceeds_index)
                    THEN Raise("IndexError")
                    ELSE IF ~IsFloat(Get(row2, c.net_share_proceeds_index))
                    THEN Warn("Warning: Could not parse Net Share Proceeds in Releases row")
                    ELSE LET value == FormatProduct2(ParseFloat(price_str),
                                        ParseFloat(Get(row2, c.net_share_proceeds_index)))
                             row3 == InsertAt(row2, c.order_number_index + 1, "GOOG")
                         IN  Emit(InsertAt(row3, c.net_share_proceeds_index + 2, value))

WithdrawalsCols(h) ==
  [type_index         |-> Index0(h, "Type"),
   order_number_index |-> Index0(h, "Order Number"),
   quantity_index     |-> Index0(h, "Quantity"),
   net_amount_index   |-> Index0(h, "Net Amount")]

WithdrawalsHeader(h) == InsertAt(h, Index0(h, "Order Number") + 1, "Symbol")

\* One pass of the Withdrawals loop body (lines 80-97).
WithdrawalsStep(row, c) ==
  IF Len(row) > 0 /\ StartsWith(row[1], "Please note that") THEN Skip
  ELSE IF ~InRange(row, c.type_index) THEN Raise("IndexError")
  ELSE LET row1 == IF Get(row, c.type_index) = "Sale"
                   THEN SetAt(row, c.type_index, "Sell") ELSE row
       IN  IF ~InRange(row1, c.quantity_index) THEN Raise("IndexError")
           ELSE LET row2 == SetAt(row1, c.quantity_index,
                                  RemoveChar(Get(row1, c.quantity_index), "-"))
                IN  IF ~InRange(row2, c.net_amount_index) THEN Raise("IndexError")
                    ELSE LET row3 == SetAt(row2, c.net_amount_index,
                                       RemoveChar(RemoveChar(Get(row2, c.net_amount_index), "$"), ","))
                         IN  Emit(InsertAt(row3, c.order_number_index + 1, "GOOG"))

MorganKind(h) ==
  IF Has(h, "Vest Date") THEN "releases"
  ELSE IF Has(h, "Execution Date") THEN "withdrawals"
  ELSE "none"

MorganRequired(k) ==
  IF k = "releases" THEN {"Price", "Type", "Order Number", "Net Share Proceeds"}
  ELSE {"Type", "Order Number", "Quantity", "Net Amount"}

MorganNotFound ==
  /\ conv = "morgan" /\ pc = "start" /\ ~exists
  /\ Abort("Error: Input file not found")
  /\ UNCHANGED <<conv, exists, infile, pos, last, header, kind, cols, out, buf>>

\* next(reader) on a file without lines raises StopIteration (line 109), which
\* the last handler reports.
MorganEmpty ==
  /\ conv = "morgan" /\ pc = "start" /\ exists
  /\ infile = <<>>
  /\ Abort("An unexpected error occurred")
  /\ UNCHANGED <<conv, exists, infile, pos, last, header, kind, cols, out, buf>>

MorganUnknown ==
  /\ conv = "morgan" /\ pc = "start" /\ exists
  /\ infile # <<>>
  /\ \E h \in {CsvParseLine(infile[1])} :
       /\ MorganKind(h) = "none"
       /\ header' = h
  /\ Abort("Error: Unknown report type.")
  /\ UNCHANGED <<conv, exists, infile, pos, last, kind, cols, out, buf>>

\* header.index raises ValueError on the first absent column, before the header
\* is changed or written (lines 18-21, 68-71, 126-128).
MorganMissingColumn ==
  /\ conv = "morgan" /\ pc = "start" /\ exists
  /\ infile # <<>>
  /\ \E h \in {CsvParseLine(infile[1])} :
       /\ MorganKind(h) # "none"
       /\ \E name \in MorganRequired(MorganKind(h)) : ~Has(h, name)
       /\ header' = h
       /\ kind' = MorganKind(h)
  /\ Abort("Error: A required column was not found in the CSV header.")
  /\ UNCHANGED <<conv, exists, infile, pos, last, cols, out, buf>>

MorganHeader ==
  /\ conv = "morgan" /\ pc = "start" /\ exists
  /\ infile # <<>>
  /\ \E h \in {CsvParseLine(infile[1])} :
       /\ MorganKind(h) # "none"
       /\ \A name \in MorganRequired(MorganKind(h)) : Has(h, name)
       /\ kind' = MorganKind(h)
       /\ cols' = IF MorganKind(h) = "releases" THEN ReleasesCols(h) ELSE WithdrawalsCols(h)
       /\ \E h2 \in {IF MorganKind(h) = "releases" THEN ReleasesHeader(h)
                      ELSE WithdrawalsHeader(h)} :
            /\ header' = h2
            /\ out' = Append(out, Line(CsvFormatRow(h2), "header", h2, 1))
  /\ pos' = 2
  /\ last' = Len(infile)
  /\ pc' = "rows"
  /\ UNCHANGED <<conv, exists, infile, buf, err, exit>>

MorganRow ==
  /\ conv = "morgan" /\ pc = "rows" /\ pos <= last
  /\ \E row \in {CsvParseLine(infile[pos])} :
     \E r \in {IF kind = "releases" THEN ReleasesStep(row, cols)
               ELSE WithdrawalsStep(row, cols)} :
         CASE r.act = "emit" ->
                /\ out' = Append(out, Line(CsvFormatRow(r.row), "row", r.row, pos))
                /\ pos' = pos + 1
                /\ UNCHANGED <<pc, err, exit>>
           [] r.act = "skip" ->
                /\ pos' = pos + 1
                /\ UNCHANGED <<pc, out, err, exit>>
           [] r.act = "warn" ->
                /\ pos' = pos + 1
                /\ err' = Append(err, r.msg)
                /\ UNCHANGED <<pc, out, exit>>
           [] OTHER ->
                /\ Abort("An unexpected error occurred")
                /\ UNCHANGED <<pos, out>>
  /\ UNCHANGED <<conv, exists, infile, last, header, kind, cols, buf>>

MorganFinish ==
  /\ conv = "morgan" /\ pc = "rows" /\ pos > last
  /\ Return
  /\ UNCHANGED <<conv, exists, infile, pos, last, header, kind, cols, out, buf, err>>

process_morgan_stanley_report ==
  \/ MorganNotFound
  \/ MorganEmpty
  \/ MorganUnknown
  \/ MorganMissingColumn
  \/ MorganHeader
  \/ MorganRow
  \/ MorganFinish

(***************************************************************************)
(* vanguard_401k_IRA_converter.py                                          *)
(***************************************************************************)
IsVanguardHeader(line) == StartsWith(Strip(line), "Account Number,Trade Date")

VanguardStart(f) ==
  IF \E i \in 1..Len(f) : IsVanguardHeader(f[i])
  THEN CHOOSE i \in 1..Len(f) :
         IsVanguardHeader(f[i]) /\ \A j \in 1..(i - 1) : ~IsVanguardHeader(f[j])
  ELSE 0

\* Line 24: the header is split on commas, not read as CSV.
VanguardParseHeader(line) ==
  LET parts == Split(Strip(line), ",")
  IN  [i \in 1..Len(parts) |-> Strip(parts[i])]

\* Lines 31-39 and 45: the variant and the names and index it fixes.
VanguardCols(h) ==
  LET is_401k == Has(h, "Dollar Amount")
      is_roth == Has(h, "Principal Amount")
  IN  [is_401k         |-> is_401k,
       is_roth         |-> is_roth,
       amount_col_name |-> IF is_401k THEN "Dollar Amount" ELSE "Principal Amount",
       shares_col_name |-> IF is_401k THEN "Transaction Shares" ELSE "Shares",
       desc_index      |-> Index0(h, "Transaction Description")]

Map401kTypeCol(t) ==
  CASE t = "Plan Contribution" -> "Buy"
    [] t = "Fee"               -> "Fees"
    [] t = "Fund to Fund Out"  -> "Sell"
    [] t = "Fund to Fund In"   -> "Buy"
    [] OTHER                   -> t

MapRothTypeCol(t) ==
  CASE t = "Dividend Reinvestment" -> "Buy"
    [] t = "Dividend Received"     -> "Dividend"
    [] t = "Rollover Conversion"   -> "Buy"
    [] OTHER                       -> t

MapInvestmentName(n) ==
  CASE n = "Target Retire 2050 Tr" -> "Vanguard Target Retirement 2050 Trust"
    [] n = "Tgt Retire 2070 Trust" -> "Vanguard Target Retirement 2070 Trust"
    [] OTHER                       -> n

\* Lines 78-104: the value of the new Type cell.  h is the header as the loop
\* sees it, that is with 'Type' already inserted; row is the row as read.
VanguardTypeCol(row, h, c, description) ==
  IF c.is_401k
  THEN LET k == Index0(h, c.shares_col_name)
           misc == StartsWith(description, "Miscellaneous Credits")
                     /\ k >= 0 /\ InRange(row, k) /\ IsFloat(Get(row, k))
       IN  IF misc /\ FloatIsNeg(Get(row, k)) THEN "Sell"
           ELSE IF misc /\ FloatIsPos(Get(row, k)) THEN "Buy"
           ELSE Map401kTypeCol(description)
  ELSE MapRothTypeCol(description)

\* Lines 110-133 on the row with its Type cell inserted.
VanguardClean(row, h, c) ==
  LET ii == Index0(h, "Investment Name")
      pi == Index0(h, "Share Price")
      ai == Index0(h, c.amount_col_name)
      ni == Index0(h, "Net Amount")
  IN  IF ii < 0 THEN Raise("ValueError")
      ELSE IF ~InRange(row, ii) THEN Raise("IndexError")
      ELSE IF pi < 0 THEN Raise("ValueError")
      ELSE LET row1 == SetAt(row, ii, MapInvestmentName(Get(row, ii)))
               row2 == IF pi < Len(row1) /\ Get(row1, pi) # ""
                       THEN SetAt(row1, pi, RemoveChar(Get(row1, pi), "$")) ELSE row1
               amt  == IF c.is_roth
                       THEN RemoveChar(RemoveChar(Get(row2, ai), "$"), "-")
                       ELSE RemoveChar(Get(row2, ai), "$")
               row3 == IF ai < Len(row2) /\ Get(row2, ai) # ""
                       THEN SetAt(row2, ai, amt) ELSE row2
               row4 == IF c.is_roth /\ ni >= 0
                            /\ ni < Len(row3) /\ Get(row3, ni) # ""
                       THEN SetAt(row3, ni, RemoveChar(Get(row3, ni), "-")) ELSE row3
           IN  Emit(row4)

\* One pass of the loop body (lines 56-136) on a non-empty row.  Every name is
\* looked up in h, the header with 'Type' inserted, also before the row gets
\* its own Type cell (line 107).
VanguardStep(row, h, c) ==
  LET di == Index0(h, "Transaction Description")
      si == Index0(h, c.shares_col_name)
      pi == Index0(h, "Share Price")
  IN  IF ~InRange(row, di) THEN Raise("IndexError")
      ELSE LET description == Get(row, di)
               misc == c.is_401k /\ StartsWith(description, "Miscellaneous Credits")
           IN  IF c.is_401k /\ Contains(description, "Source to Source/Fund to Fund Transfer")
               THEN Skip
               ELSE IF misc /\ si < 0 THEN Raise("ValueError")
               ELSE IF misc /\ ~InRange(row, si) THEN Raise("IndexError")
               ELSE IF misc /\ ~IsFloat(Get(row, si)) THEN Raise("ValueError")
               ELSE IF misc /\ FloatIsZero(Get(row, si)) THEN Skip
               ELSE IF ~c.is_401k /\ c.is_roth /\ Contains(description, "Sweep") THEN Skip
               ELSE IF description = "Fee" /\ pi < 0 THEN Raise("ValueError")
               ELSE IF description = "Fee" /\ ~InRange(row, pi) THEN Raise("IndexError")
               ELSE IF description = "Fee" /\ Strip(Get(row, pi)) = "" THEN Skip
               ELSE VanguardClean(
                      InsertAt(row, c.desc_index + 1,
                               VanguardTypeCol(row, h, c, description)), h, c)

\* Lines 151-153: the script checks the path itself and reports on standard
\* output (print without file=).
VanguardNotFound ==
  /\ conv = "vanguard401k" /\ pc = "start" /\ ~exists
  /\ out' = Append(out, Line("Error: Input file not found", "msg", <<>>, 0))
  /\ exit' = 1
  /\ pc' = "fatal"
  /\ UNCHANGED <<conv, exists, infile, pos, last, header, kind, cols, buf, err>>

\* Lines 27-28 and 158: without a header the function returns "" and the script
\* prints it, which writes an empty line, and ends normally.
VanguardNoHeader ==
  /\ conv = "vanguard401k" /\ pc = "start" /\ exists
  /\ VanguardStart(infile) = 0
  /\ out' = Append(out, Line("", "msg", <<>>, 0))
  /\ Return
  /\ UNCHANGED <<conv, exists, infile, pos, last, header, kind, cols, buf, err>>

\* Line 41: raise ValueError, which nothing catches: a traceback and status 1.
VanguardUnsupported ==
  /\ conv = "vanguard401k" /\ pc = "start" /\ exists
  /\ VanguardStart(infile) # 0
  /\ \E h \in {VanguardParseHeader(infile[VanguardStart(infile)])} :
       /\ ~Has(h, "Dollar Amount") /\ ~Has(h, "Principal Amount")
       /\ header' = h
  /\ Abort("ValueError: Unsupported CSV format: missing amount column")
  /\ UNCHANGED <<conv, exists, infile, pos, last, kind, cols, out, buf>>

\* Line 45: header.index raises ValueError, which nothing catches.
VanguardMissingDescription ==
  /\ conv = "vanguard401k" /\ pc = "start" /\ exists
  /\ VanguardStart(infile) # 0
  /\ \E h \in {VanguardParseHeader(infile[VanguardStart(infile)])} :
       /\ Has(h, "Dollar Amount") \/ Has(h, "Principal Amount")
       /\ ~Has(h, "Transaction Description")
       /\ header' = h
  /\ Abort("ValueError: 'Transaction Description' is not in list")
  /\ UNCHANGED <<conv, exists, infile, pos, last, kind, cols, out, buf>>

VanguardHeader ==
  /\ conv = "vanguard401k" /\ pc = "start" /\ exists
  /\ VanguardStart(infile) # 0
  /\ \E s \in {VanguardStart(infile)} :
     \E h \in {VanguardParseHeader(infile[s])} :
       /\ Has(h, "Dollar Amount") \/ Has(h, "Principal Amount")
       /\ Has(h, "Transaction Description")
       /\ \E c \in {VanguardCols(h)} :
          \E h2 \in {InsertAt(h, c.desc_index + 1, "Type")} :
            /\ cols' = c
            /\ kind' = IF c.is_401k THEN "401k" ELSE "roth"
            /\ header' = h2
            /\ buf' = Append(buf, Line(CsvFormatRow(h2), "header", h2, s))
       /\ pos' = s + 1
  /\ last' = Len(infile)
  /\ pc' = "rows"
  /\ UNCHANGED <<conv, exists, infile, out, err, exit>>

VanguardRow ==
  /\ conv = "vanguard401k" /\ pc = "rows" /\ pos <= last
  /\ \E row \in {CsvParseLine(infile[pos])} :
       /\ row # <<>>
       /\ \E r \in {VanguardStep(row, header, cols)} :
            CASE r.act = "emit" ->
                   /\ buf' = Append(buf, Line(CsvFormatRow(r.row), "row", r.row, pos))
                   /\ pos' = pos + 1
                   /\ UNCHANGED <<pc, err, exit>>
              [] r.act = "skip" ->
                   /\ pos' = pos + 1
                   /\ UNCHANGED <<pc, buf, err, exit>>
              [] OTHER ->
                   /\ Abort(r.exc)
                   /\ UNCHANGED <<pos, buf>>
  /\ UNCHANGED <<conv, exists, infile, last, header, kind, cols, out>>

\* The loop ends at the end of the file or at the first empty row (line 54);
\* the function returns the buffer and the script prints it (line 158), which
\* adds a line terminator of its own after the last line.
VanguardFinish ==
  /\ conv = "vanguard401k" /\ pc = "rows"
  /\ IF pos > last THEN TRUE ELSE CsvParseLine(infile[pos]) = <<>>
  /\ out' = out \o buf \o <<Line("", "msg", <<>>, 0)>>
  /\ Return
  /\ UNCHANGED <<conv, exists, infile, pos, last, header, kind, cols, buf, err>>

convert_vanguard_401k_csv ==
  \/ VanguardNotFound
  \/ VanguardNoHeader
  \/ VanguardUnsupported
  \/ VanguardMissingDescription
  \/ VanguardHeader
  \/ VanguardRow
  \/ VanguardFinish

(***************************************************************************)
(* vanguard_brokerage_converter.py                                         *)
(***************************************************************************)
\* The rules of lines 114-129, in the dictionary's order.
conversion_rules ==
  << <<"capital gain", "Interest">>,
     <<"reinvestment", "Buy">>,
     <<"sweep in", "Buy">>,
     <<"sweep out", "Sell">>,
     <<"corp action (redemption)", "Sell">>,
     <<"corp action (merger)", "Sell">>,
     <<"wire in", "Deposit">>,
     <<"funds received", "Deposit">>,
     <<"sell (exchange)", "Sell">>,
     <<"buy (exchange)", "Buy">>,
     <<"conversion (incoming)", "Deposit">>,
     <<"transfer (incoming)", "Deposit">>,
     <<"transfer (outgoing)", "Removal">>,
     <<"withdrawal", "Removal">> >>

apply_conversion_rules(transaction_type, rules) ==
  LET lower_transaction_type == Lower(Strip(transaction_type))
      hits == {i \in 1..Len(rules) : StartsWith(lower_transaction_type, rules[i][1])}
  IN  IF hits = {} THEN transaction_type
      ELSE rules[CHOOSE i \in hits : \A j \in hits : i <= j][2]

IsBrokerageHeader(line) == Contains(line, "Account Number,Trade Date,Settlement Date")

\* Lines 32-37, 1-based; 0 where the script keeps -1.
BrokerageStart(f) ==
  IF \E i \in 1..Len(f) : IsBrokerageHeader(f[i])
  THEN CHOOSE i \in 1..Len(f) :
         IsBrokerageHeader(f[i]) /\ \A j \in 1..(i - 1) : ~IsBrokerageHeader(f[j])
  ELSE 0

\* Lines 50-52: an absent column gives -1 instead of an error.
BrokerageCols(h) ==
  [transaction_type_index |-> Index0(h, "Transaction Type"),
   principal_amount_index |-> Index0(h, "Principal Amount"),
   shares_index           |-> Index0(h, "Shares")]

\* principal_amount[1:] if principal_amount.startswith('-') else principal_amount
StripOneMinus(a) == IF StartsWith(a, "-") THEN Tail(a) ELSE a

\* Lines 73-100 without the assignment to the Shares cell of lines 87-88.
BrokerageStep_SharesKept(row, c, rules) ==
  IF c.transaction_type_index # -1 /\ Len(row) > c.transaction_type_index
  THEN LET original == Lower(Strip(Get(row, c.transaction_type_index)))
           has_principal == c.principal_amount_index # -1
                              /\ Len(row) > c.principal_amount_index
           positive == StripOneMinus(Get(row, c.principal_amount_index))
           row1 == IF (StartsWith(original, "sweep in") \/ StartsWith(original, "sweep out")
                         \/ StartsWith(original, "reinvestment")) /\ has_principal
                   THEN SetAt(row, c.principal_amount_index, positive)
                   ELSE row
       IN  SetAt(row1, c.transaction_type_index,
                 apply_conversion_rules(Get(row1, c.transaction_type_index), rules))
  ELSE row

\* Lines 73-100 on a parsed row.
BrokerageStep(row, c, rules) ==
  IF c.transaction_type_index # -1 /\ Len(row) > c.transaction_type_index
  THEN LET original == Lower(Strip(Get(row, c.transaction_type_index)))
           has_principal == c.principal_amount_index # -1
                              /\ Len(row) > c.principal_amount_index
           has_shares == c.shares_index # -1 /\ Len(row) > c.shares_index
           positive == StripOneMinus(Get(row, c.principal_amount_index))
           row1 == IF StartsWith(original, "sweep in") \/ StartsWith(original, "sweep out")
                   THEN IF has_principal
                        THEN LET r1 == SetAt(row, c.principal_amount_index, positive)
                             IN  IF has_shares THEN SetAt(r1, c.shares_index, positive)
                                 ELSE r1
                        ELSE row
                   ELSE IF StartsWith(original, "reinvestment") /\ has_principal
                   THEN SetAt(row, c.principal_amount_index, positive)
                   ELSE row
       IN  SetAt(row1, c.transaction_type_index,
                 apply_conversion_rules(Get(row1, c.transaction_type_index), rules))
  ELSE row

\* open() raises FileNotFoundError, which nothing catches (line 25).
BrokerageNotFound ==
  /\ conv = "brokerage" /\ pc = "start" /\ ~exists
  /\ Abort("FileNotFoundError")
  /\ UNCHANGED <<conv, exists, infile, pos, last, header, kind, cols, out, buf>>

\* Lines 40-42: a message on the error stream and a plain return.
BrokerageNoHeader ==
  /\ conv = "brokerage" /\ pc = "start" /\ exists
  /\ BrokerageStart(infile) = 0
  /\ err' = Append(err, "Brokerage transaction data not found")
  /\ Return
  /\ UNCHANGED <<conv, exists, infile, pos, last, header, kind, cols, out, buf>>

\* Lines 45-55: the header line is printed as it was read.
BrokerageHeader ==
  /\ conv = "brokerage" /\ pc = "start" /\ exists
  /\ BrokerageStart(infile) # 0
  /\ \E s \in {BrokerageStart(infile)} :
     \E header_line \in {Strip(infile[s])} :
     \E h \in {CsvParseLine(header_line)} :
       /\ header' = h
       /\ cols' = BrokerageCols(h)
       /\ out' = Append(out, Line(header_line, "header", h, s))
       /\ pos' = s + 1
  /\ last' = Len(infile)
  /\ kind' = "brokerage"
  /\ pc' = "rows"
  /\ UNCHANGED <<conv, exists, infile, buf, err, exit>>

BrokerageEnds(line) == line = "" \/ StartsWith(line, "Account Number,")

\* Lines 58-103: the row is printed with ','.join, not through csv.writer.
BrokerageRow ==
  /\ conv = "brokerage" /\ pc = "rows" /\ pos <= last
  /\ \E line \in {Strip(infile[pos])} :
       /\ ~BrokerageEnds(line)
       /\ \E row \in {BrokerageStep(CsvParseLine(line), cols, conversion_rules)} :
            out' = Append(out, Line(Join(row, ","), "row", row, pos))
  /\ pos' = pos + 1
  /\ UNCHANGED <<conv, exists, infile, pc, last, header, kind, cols, buf, err, exit>>

BrokerageFinish ==
  /\ conv = "brokerage" /\ pc = "rows"
  /\ IF pos > last THEN TRUE ELSE BrokerageEnds(Strip(infile[pos]))
  /\ Return
  /\ UNCHANGED <<conv, exists, infile, pos, last, header, kind, cols, out, buf, err>>

process_vanguard_csv ==
  \/ BrokerageNotFound
  \/ BrokerageNoHeader
  \/ BrokerageHeader
  \/ BrokerageRow
  \/ BrokerageFinish

Next ==
  \/ process_fidelity_csv
  \/ process_morgan_stanley_report
  \/ convert_vanguard_401k_csv
  \/ process_vanguard_csv

Init == InitFor(Converters)

Spec == Init /\ [][Next]_vars

\* One converter at a time, for the claims about a single converter.
SpecFidelity == InitFor({"fidelity"}) /\ [][process_fidelity_csv]_vars
SpecMorgan == InitFor({"morgan"}) /\ [][process_morgan_stanley_report]_vars
SpecVanguard == InitFor({"vanguard401k"}) /\ [][convert_vanguard_401k_csv]_vars
SpecBrokerage == InitFor({"brokerage"}) /\ [][process_vanguard_csv]_vars

(***************************************************************************)
(* What the claims speak of: the header the converter recognizes in the    *)
(* input, the input row behind an output line, and how a run ended.        *)
(***************************************************************************)
\* The input line the converter takes as the header, 0 when it finds none.
SourceHeaderAt ==
  CASE conv = "fidelity"     -> FidelityStart(infile)
    [] conv = "vanguard401k" -> VanguardStart(infile)
    [] conv = "brokerage"    -> BrokerageStart(infile)
    [] conv = "morgan"       -> IF infile = <<>> THEN 0 ELSE 1

\* The column names of that header, as the converter reads them.
SourceHeader ==
  CASE conv = "vanguard401k" -> VanguardParseHeader(infile[SourceHeaderAt])
    [] conv = "brokerage"    -> CsvParseLine(Strip(infile[SourceHeaderAt]))
    [] OTHER                 -> CsvParseLine(infile[SourceHeaderAt])

\* The fields of input line i, as the converter's row loop reads them.
SourceRow(i) ==
  IF conv = "brokerage" THEN CsvParseLine(Strip(infile[i])) ELSE CsvParseLine(infile[i])

\* The cell of input line i under the named column of the source header.
SourceCell(i, name) == SourceRow(i)[IndexOf(SourceHeader, name)]

HasSourceCell(i, name) ==
  IndexOf(SourceHeader, name) \in 1..Len(SourceRow(i))

HeaderLines == {i \in 1..Len(out) : out[i].what = "header"}
RowLines == {i \in 1..Len(out) : out[i].what = "row"}

\* The run ended on an error while its row loop was at input line pos.
FatalAtRow == pc = "fatal" /\ kind # "none" /\ pos >= 1 /\ pos <= last

\* The run ended on one of the fatal errors of the taxonomy: the input was not
\* found, the header's shape was not recognized or not supported, or a
\* required column was absent from it.
StructuralMessages ==
  { "Error: Input file not found",
    "FileNotFoundError",
    "Error: No data found in file.",
    "Error: Unsupported CSV format. Header found",
    "Error: Unknown report type.",
    "ValueError: Unsupported CSV format: missing amount column",
    "Error: A required column was not found in the CSV header.",
    "ValueError: 'Transaction Description' is not in list" }

StructuralFatal ==
  /\ pc = "fatal"
  /\ \/ ~exists
     \/ err # <<>> /\ err[Len(err)] \in StructuralMessages

\* No line of the file is one the converter takes as a transaction header.
NoHeaderRecognized ==
  /\ exists
  /\ infile # <<>>
  /\ IF conv = "morgan"
     THEN \A i \in 1..Len(infile) : MorganKind(CsvParseLine(infile[i])) = "none"
     ELSE SourceHeaderAt = 0

\* The names the converter's rules look up in the header.
RequiredColumns ==
  CASE conv = "brokerage"    -> {"Transaction Type", "Principal Amount", "Shares"}
    [] conv = "vanguard401k" -> {"Transaction Description"}
    [] conv = "morgan"       -> MorganRequired(MorganKind(SourceHeader))
    [] OTHER                 -> {}

\* A header was recognized and its variant detected, and a required column is
\* absent from it.
MissingRequiredColumn ==
  /\ exists
  /\ SourceHeaderAt # 0
  /\ CASE conv = "morgan"       -> MorganKind(SourceHeader) # "none"
       [] conv = "vanguard401k" -> Has(SourceHeader, "Dollar Amount")
                                     \/ Has(SourceHeader, "Principal Amount")
       [] OTHER                 -> TRUE
  /\ \E name \in RequiredColumns : ~Has(SourceHeader, name)

\* Input line i is a data line whose field count is not the source header's.
Malformed(i) ==
  /\ Strip(infile[i]) # ""
  /\ Len(SourceRow(i)) # Len(SourceHeader)

\* Input line i is a well-formed row in which a numeric field that a rule
\* parses is not a number.
UnparsableNumeric(i) ==
  /\ ~Malformed(i)
  /\ CASE conv = "fidelity" /\ kind = "401k" ->
            /\ SourceCell(i, "Transaction Type") \in {"Transfers", "Transfer"}
            /\ SourceCell(i, "Amount") # ""
            /\ ~IsFloat(SourceCell(i, "Amount"))
       [] conv = "vanguard401k" /\ kind = "401k" ->
            /\ StartsWith(SourceCell(i, "Transaction Description"), "Miscellaneous Credits")
            /\ HasSourceCell(i, "Transaction Shares")
            /\ ~IsFloat(SourceCell(i, "Transaction Shares"))
       [] conv = "morgan" /\ kind = "releases" ->
            \/ ~IsFloat(RemoveChar(SourceCell(i, "Price"), "$"))
            \/ ~IsFloat(SourceCell(i, "Net Share Proceeds"))
       [] OTHER -> FALSE

(***************************************************************************)
(* The claims.                                                             *)
(***************************************************************************)
\* C1: in every converter, each data row written to the output has as many
\* fields as the header row written to the output, and an input row whose
\* field count differs from the source header's is never written.
C1_RowsMatchHeader ==
  /\ \A h \in HeaderLines : \A r \in RowLines :
       Len(out[r].row) = Len(out[h].row)
  /\ \A r \in RowLines : ~Malformed(out[r].src)

\* C2: when a conversion ends with a fatal error (input not found, header
\* shape not recognized or not supported, required column missing), nothing
\* has been written to standard output.
C2_NoOutputOnFatal == StructuralFatal => out = <<>>

\* C3: on a file in which no line is recognized as a transaction header, every
\* converter ends with an error on the error stream, a nonzero exit status and
\* nothing written to standard output.
C3_PreambleOnlyAborts ==
  (NoHeaderRecognized /\ pc # "start") =>
    (pc = "fatal" /\ exit # 0 /\ err # <<>> /\ out = <<>>)

\* C4: when a column the converter's rules require is absent from the
\* recognized header, the conversion aborts; it never goes on to its rows.
C4_MissingColumnAborts ==
  (MissingRequiredColumn /\ pc # "start") => (pc = "fatal" /\ RowLines = {})

\* C5: a row whose numeric field cannot be parsed where a rule needs it never
\* ends the conversion: the run does not abort at such a row.
C5_BadNumberNeverAborts == FatalAtRow => ~UnparsableNumeric(pos)

\* C6: a data row whose field count differs from the header's is skipped and
\* never ends the conversion: the run does not abort at such a row, and no
\* output row derives from it.
C6_MalformedRowSkipped ==
  /\ FatalAtRow => ~Malformed(pos)
  /\ \A r \in RowLines : Len(SourceRow(out[r].src)) = Len(SourceHeader)

\* C7: in the 401(k) format of the Vanguard retirement converter, every emitted
\* row whose Transaction Description is 'Miscellaneous Credits' has Type 'Buy'
\* exactly when its own Transaction Shares cell is strictly positive and 'Sell'
\* exactly when it is strictly negative, whatever the order of the header's
\* columns.
C7_MiscCreditsTypeBySign ==
  (conv = "vanguard401k" /\ kind = "401k") =>
    \A r \in RowLines :
      LET i == out[r].src
          type == out[r].row[IndexOf(header, "Type")]
      IN  (SourceCell(i, "Transaction Description") = "Miscellaneous Credits"
             /\ HasSourceCell(i, "Transaction Shares")) =>
            /\ type = "Buy" <=> FloatIsPos(SourceCell(i, "Transaction Shares"))
            /\ type = "Sell" <=> FloatIsNeg(SourceCell(i, "Transaction Shares"))

\* C8: in Morgan Stanley Releases output, for any order of the source columns,
\* 'Symbol' directly follows 'Order Number' and 'Value' directly follows
\* 'Net Share Proceeds' in the emitted header, and every emitted row holds
\* 'GOOG' and the computed value at those two positions.
ReleasesValue(i) ==
  FormatProduct2(ParseFloat(RemoveChar(SourceCell(i, "Price"), "$")),
                 ParseFloat(SourceCell(i, "Net Share Proceeds")))

C8_InsertedAfterAnchors ==
  (conv = "morgan" /\ kind = "releases") =>
    \A h \in HeaderLines :
      LET names == out[h].row
          symbolAt == IndexOf(names, "Order Number") + 1
          valueAt == IndexOf(names, "Net Share Proceeds") + 1
      IN  /\ symbolAt <= Len(names) /\ names[symbolAt] = "Symbol"
          /\ valueAt <= Len(names) /\ names[valueAt] = "Value"
          /\ \A r \in RowLines :
               /\ symbolAt <= Len(out[r].row) /\ out[r].row[symbolAt] = "GOOG"
               /\ valueAt <= Len(out[r].row)
               /\ out[r].row[valueAt] = ReleasesValue(out[r].src)

\* C9: for both Fidelity variants, no row of the output derives from an input
\* row whose transaction type is 'Transfers' and whose amount is numerically
\* zero.
TransfersZero(i) ==
  LET row == SourceRow(i)
  IN  CASE kind = "401k" ->
             Len(row) = 5 /\ row[3] = "Transfers" /\ FloatIsZero(row[5])
        [] kind = "ira" ->
             Len(row) = 13 /\ row[2] = "Transfers" /\ FloatIsZero(row[11])
        [] OTHER -> FALSE

C9_NoZeroTransfers ==
  conv = "fidelity" => \A r \in RowLines : ~TransfersZero(out[r].src)

\* C9, restricted to the 401k variant: in the Fidelity 401k variant (5
\* columns), no row of the output derives from an input row whose transaction
\* type is 'Transfers' and whose amount is numerically zero.
C9_NoZeroTransfers401k ==
  (conv = "fidelity" /\ kind = "401k") =>
    \A r \in RowLines : ~TransfersZero(out[r].src)

\* A 401k run that has finished, has read a zero-amount Transfers row and has
\* written another row.
C9_Witness ==
  /\ conv = "fidelity" /\ kind = "401k" /\ pc = "done"
  /\ \E i \in (SourceHeaderAt + 1)..last : TransfersZero(i)
  /\ RowLines # {}

\* C10: parsing an emitted output line back as CSV yields the field list of the
\* transformed row, also when a field holds a comma or a double quote.
C10_OutputRoundTrips ==
  \A r \in RowLines : CsvParseLine(out[r].text) = out[r].row

\* C11: in the Vanguard brokerage converter, a row whose Transaction Type
\* starts, in any letter case, with 'sweep in' is written with Transaction Type
\* 'Buy', with its Principal Amount less one leading '-', with Shares equal to
\* that Principal Amount, and with every other cell as it was read.
SweepIn(i) ==
  /\ HasSourceCell(i, "Transaction Type")
  /\ StartsWith(Lower(SourceCell(i, "Transaction Type")), "sweep in")

LessOneMinus(a) == IF a # "" /\ Ch(a, 1) = "-" THEN SubSeq(a, 2, Len(a)) ELSE a

C11_SweepInBecomesBuy ==
  conv = "brokerage" =>
    \A r \in RowLines :
      LET src == SourceRow(out[r].src)
          row == out[r].row
          t == IndexOf(SourceHeader, "Transaction Type")
          p == IndexOf(SourceHeader, "Principal Amount")
          s == IndexOf(SourceHeader, "Shares")
      IN  SweepIn(out[r].src) =>
            /\ Len(row) = Len(src)
            /\ row[t] = "Buy"
            /\ p \in 1..Len(src) => row[p] = LessOneMinus(src[p])
            /\ (p \in 1..Len(src) /\ s \in 1..Len(src)) => row[s] = row[p]
            /\ \A k \in 1..Len(src) : k \notin {t, p, s} => row[k] = src[k]

\* A finished brokerage run that wrote a 'sweep in' row whose Principal Amount
\* carried a minus sign and whose Shares cell was rewritten.
C11_Witness ==
  /\ conv = "brokerage" /\ pc = "done"
  /\ \E r \in RowLines :
       /\ SweepIn(out[r].src)
       /\ HasSourceCell(out[r].src, "Principal Amount")
       /\ HasSourceCell(out[r].src, "Shares")
       /\ StartsWith(SourceCell(out[r].src, "Principal Amount"), "-")
       /\ out[r].row[IndexOf(SourceHeader, "Shares")] # SourceCell(out[r].src, "Shares")

\* C12: in the Fidelity 401k variant, once the run has ended, every 5-field
\* input row that no content filter removes has exactly one output row, of the
\* 5 fields Date, Investment, Transaction Type, Shares, Amount: the date as
\* read, the investment renamed to 'VSVNX' when it is 'VANG TARGET RET 2070',
\* the type mapped (Contributions and Exchange In to Buy, Exchange Out to Sell,
\* RECORDKEEPING FEE to Fees), and shares and amount without leading minus.
Removed401k(row) ==
  \/ row[3] = "Change in Market Value"
  \/ row[3] \in {"Transfers", "Transfer"} /\ FloatIsZero(row[5])

RECURSIVE Unsigned(_)
Unsigned(a) == IF a # "" /\ Ch(a, 1) = "-" THEN Unsigned(SubSeq(a, 2, Len(a))) ELSE a

Expected401k(row) ==
  << row[1],
     IF row[2] = "VANG TARGET RET 2070" THEN "VSVNX" ELSE row[2],
     CASE row[3] \in {"Contributions", "Exchange In"} -> "Buy"
       [] row[3] = "Exchange Out"                      -> "Sell"
       [] row[3] = "RECORDKEEPING FEE"                 -> "Fees"
       [] OTHER                                        -> row[3],
     Unsigned(row[4]),
     Unsigned(row[5]) >>

C12_Each401kRowMapped ==
  (conv = "fidelity" /\ kind = "401k" /\ pc \in {"done", "fatal"}) =>
    \A i \in (SourceHeaderAt + 1)..last :
      (Len(SourceRow(i)) = 5 /\ ~Removed401k(SourceRow(i))) =>
        /\ Cardinality({r \in RowLines : out[r].src = i}) = 1
        /\ \A r \in RowLines :
             out[r].src = i =>
               /\ out[r].row = Expected401k(SourceRow(i))
               /\ CsvParseLine(out[r].text) = Expected401k(SourceRow(i))

\* C13: when a converter has recognized its header and returned with status 0,
\* its output is the header line, once and first, followed by nothing but row
\* lines, one per surviving input row and in the order of the input rows.
C13_HeaderThenRowsInOrder ==
  (pc = "done" /\ kind # "none") =>
    /\ out # <<>>
    /\ out[1].what = "header"
    /\ \A i \in 2..Len(out) : out[i].what = "row"
    /\ \A i, j \in 2..Len(out) : i < j => out[i].src < out[j].src

\* C14: in the Vanguard retirement converter, once the run has returned, an
\* input row whose Transaction Description is 'Fee' is absent from the output
\* exactly when its own Share Price cell is blank, wherever Share Price stands
\* relative to Transaction Description in the header.
FeeRow(i) ==
  /\ HasSourceCell(i, "Transaction Description")
  /\ HasSourceCell(i, "Share Price")
  /\ SourceCell(i, "Transaction Description") = "Fee"

C14_FeeDroppedIffOwnPriceBlank ==
  (conv = "vanguard401k" /\ pc = "done" /\ kind # "none") =>
    \A i \in (SourceHeaderAt + 1)..(pos - 1) :
      FeeRow(i) =>
        (Strip(SourceCell(i, "Share Price")) = ""
           <=> ~\E r \in RowLines : out[r].src = i)

====
